---- MODULE Spec2Model ----
(***************************************************************************)
(* Model of the quiz tooling: scripts/quiz_converter.py (the conversion    *)
(* command: pandoc text -> parse_quiz -> create_html_quiz -> artifact) and *)
(* scripts/update_index.py (the index update command).                     *)
(*                                                                         *)
(* Text is modelled at character level: a text is a sequence of            *)
(* one-character strings.  A non-ASCII character is one element named by   *)
(* its code point ("U+2713").  The regular expressions of the source are   *)
(* operators that compute what Python's re module computes for them        *)
(* (leftmost match, greedy/lazy quantifiers, lookahead, DOTALL, `$`).      *)
(***************************************************************************)
EXTENDS Integers, Sequences, FiniteSets, TLC

VARIABLES
    argv,        \* conversion command: the arguments after the script name
    docExists,   \* conversion command: Path(docx_path).exists()
    docx,        \* conversion command: the content of the Word document
    pandoc,      \* conversion command: how the external converter behaves
    pc,          \* conversion command: position in main()
    text,        \* conversion command: main's `text`
    questions,   \* conversion command: main's `questions`
    quiz_data,   \* create_html_quiz's `quiz_data`
    html,        \* conversion command: main's `html`
    artifact,    \* conversion command: the file written by main
    exitCode,    \* conversion command: process exit status (-1: running)
    extracted,   \* the quizData array read back from html ([done, ok, val])
    dir,         \* index command: the current directory, file name -> content
    dir0,        \* index command: the directory when the command started
    ipc,         \* index command: position in main()
    quiz_files,  \* index command: main's `quiz_files`
    quiz_infos,  \* index command: main's `quiz_infos`
    quiz_cards_html, \* index command: main's `quiz_cards_html`
    ilog,        \* index command: the kinds of the messages printed
    iexit,       \* index command: process exit status (-1: running)
    runs,        \* index command: how many times it was started on `dir`
    quizData,    \* page script: const quizData
    currentIdx,  \* page script: let currentIdx
    score,       \* page script: let score
    hintsUsed,   \* page script: let hintsUsed
    wrongAnswers, \* page script: let wrongAnswers
    hintTextHidden, \* page: #hint-text has class "hidden"
    buttonsDisabled, \* page: the buttons of #options are disabled
    feedback,    \* page: the class of #feedback
    nextBtnHidden, \* page: #next-btn has class "hidden"
    quizBoxHidden, \* page: #quiz-box has class "hidden" (then #result-box has not)
    resultForm,  \* page: the values showResults puts in the result box
    answered     \* history: the question numbers checkAnswer was called on

convVars == <<argv, docExists, docx, pandoc, pc, text, questions, quiz_data,
              html, artifact, exitCode, extracted>>

indexVars == <<dir, dir0, ipc, quiz_files, quiz_infos, quiz_cards_html, ilog, iexit>>

pageVars == <<quizData, currentIdx, score, hintsUsed, wrongAnswers, hintTextHidden,
              buttonsDisabled, feedback, nextBtnHidden, quizBoxHidden, resultForm,
              answered>>

vars == <<convVars, indexVars, pageVars, runs>>

----------------------------------------------------------------------------
(* Sequences and characters *)

Min(S) == CHOOSE x \in S : \A y \in S : x <= y

Max(S) == 0 - Min({0 - x : x \in S})

\* F(e), with e evaluated once whatever the number of times F uses it
Bind(e, F(_)) == CHOOSE y \in {F(x) : x \in {e}} : TRUE

\* Python's s[a:b] with 1-based inclusive bounds
Slice(t, a, b) == IF a > b THEN <<>> ELSE SubSeq(t, a, b)

\* does pat occur in t at position i
StartsAt(t, i, pat) ==
    /\ i >= 1
    /\ i + Len(pat) - 1 <= Len(t)
    /\ \A k \in 1..Len(pat) : t[i + k - 1] = pat[k]

\* all positions at which pat occurs in t
Occurrences(t, pat) == {i \in 1..Len(t) : StartsAt(t, i, pat)}

Contains(t, pat) == Occurrences(t, pat) # {}

\* content.find(pat, from) with 1-based positions; 0 stands for -1
Find(content, pat, from) ==
    Bind({i \in from..Len(content) : StartsAt(content, i, pat)},
         LAMBDA at : IF at = {} THEN 0 ELSE Min(at))

RECURSIVE Flatten(_)
Flatten(ss) == IF ss = <<>> THEN <<>> ELSE Head(ss) \o Flatten(Tail(ss))

\* regex class \s, and the characters str.strip() removes
IsSpace(c) == c \in {" ", "\n", "\t", "\r"}

\* regex class \d
IsDigit(c) == c \in {"0", "1", "2", "3", "4", "5", "6", "7", "8", "9"}

IsUnderscore(c) == c = "_"

\* regex class [A-D]
IsOptionLetter(c) == c \in {"A", "B", "C", "D"}

LowerCase == <<"a","b","c","d","e","f","g","h","i","j","k","l","m","n","o","p","q","r","s","t","u","v","w","x","y","z">>

UpperCase == <<"A","B","C","D","E","F","G","H","I","J","K","L","M","N","O","P","Q","R","S","T","U","V","W","X","Y","Z">>

IsLetter(c) == \E k \in 1..Len(LowerCase) : c = LowerCase[k] \/ c = UpperCase[k]

LetterIndex(c) == CHOOSE k \in 1..Len(LowerCase) : c = LowerCase[k] \/ c = UpperCase[k]

\* str.lower() on ASCII text
ToLower(t) ==
    [i \in 1..Len(t) |->
        IF \E k \in 1..Len(UpperCase) : t[i] = UpperCase[k]
        THEN LowerCase[LetterIndex(t[i])] ELSE t[i]]

\* last index of the maximal run of P-characters starting at i (i-1: empty run);
\* the end is looked for in the next 32 characters before the rest of the text
RunEnd(t, i, P(_)) ==
    IF i > Len(t) THEN i - 1
    ELSE Bind({k \in i..(IF i + 32 < Len(t) THEN i + 32 ELSE Len(t)) : ~P(t[k])},
              LAMBDA near :
                  IF near # {} THEN Min(near) - 1
                  ELSE Bind({k \in (i + 33)..Len(t) : ~P(t[k])},
                            LAMBDA far : IF far # {} THEN Min(far) - 1 ELSE Len(t)))

\* str.strip()
strip(t) ==
    Bind({i \in 1..Len(t) : ~IsSpace(t[i])},
         LAMBDA keep : IF keep = {} THEN <<>> ELSE SubSeq(t, Min(keep), Max(keep)))

\* regex `$` without MULTILINE: at the end, or before a newline that ends the text
AtDollar(t, p) == p = Len(t) + 1 \/ (p = Len(t) /\ t[p] = "\n")

----------------------------------------------------------------------------
(* parse_quiz *)

\* r'\n\d+\s*/\s*\d+' at position i: index of its last character, 0 if no match
SepHeadEnd(t, i) ==
    IF i < 1 \/ i > Len(t) \/ t[i] # "\n" THEN 0
    ELSE LET d1 == RunEnd(t, i + 1, IsDigit)
             w1 == RunEnd(t, d1 + 1, IsSpace)
             w2 == RunEnd(t, w1 + 2, IsSpace)
             d2 == RunEnd(t, w2 + 1, IsDigit)
         IN  IF d1 < i + 1 THEN 0
             ELSE IF w1 + 1 > Len(t) \/ t[w1 + 1] # "/" THEN 0
             ELSE IF d2 < w2 + 1 THEN 0
             ELSE d2

\* r'\n\d+\s*/\s*\d+\s*\n' at position i: index of its last character, 0 if
\* no match.  The greedy \s* backs off to the last newline of the whitespace run.
SepEnd(t, i) ==
    LET d2 == SepHeadEnd(t, i)
    IN  IF d2 = 0 THEN 0
        ELSE LET w3 == RunEnd(t, d2 + 1, IsSpace)
                 nl == {k \in (d2 + 1)..w3 : t[k] = "\n"}
             IN  IF nl = {} THEN 0 ELSE Max(nl)

\* re.split(r'\n\d+\s*/\s*\d+\s*\n', text), scanning from pos
RECURSIVE SplitFrom(_, _)
SplitFrom(t, pos) ==
    LET starts == {i \in pos..Len(t) : SepEnd(t, i) > 0}
    IN  IF starts = {} THEN <<Slice(t, pos, Len(t))>>
        ELSE LET i == Min(starts)
             IN  <<Slice(t, pos, i - 1)>> \o SplitFrom(t, SepEnd(t, i) + 1)

SplitParts(t) == SplitFrom(t, 1)

OptionA == <<"\n", "A", ".">>

\* re.search(r'^(.*?)\nA\.', part, re.DOTALL): [found, group1]
QuestionMatch(part) ==
    LET at == Occurrences(part, OptionA)
    IN  IF at = {} THEN [found |-> FALSE, group |-> <<>>]
        ELSE [found |-> TRUE, group |-> Slice(part, 1, Min(at) - 1)]

BlankWidth == 11

Blank == [i \in 1..BlankWidth |-> "_"]

\* re.sub(r'_{2,}', '_' * 11, t), scanning from pos: one step per underscore run
RECURSIVE NormalizeFrom(_, _)
NormalizeFrom(t, pos) ==
    LET us == {i \in pos..Len(t) : t[i] = "_"}
    IN  IF us = {} THEN Slice(t, pos, Len(t))
        ELSE LET i == Min(us)
                 e == RunEnd(t, i, IsUnderscore)
             IN  Slice(t, pos, i - 1)
                 \o (IF e - i + 1 >= 2 THEN Blank ELSE <<"_">>)
                 \o NormalizeFrom(t, e + 1)

\* mutant: the blanks are left as they were written
NormalizeBlanksOff(t) == t

NormalizeBlanks(t) == NormalizeFrom(t, 1)

\* r'[A-D]\.\s*\n' at position i: index of its last character, 0 if no match
OptionMarkerEnd(t, i) ==
    IF i + 1 > Len(t) \/ ~IsOptionLetter(t[i]) \/ t[i + 1] # "." THEN 0
    ELSE LET w  == RunEnd(t, i + 2, IsSpace)
             nl == {k \in (i + 2)..w : t[k] = "\n"}
         IN  IF nl = {} THEN 0 ELSE Max(nl)

HintWord == <<"H", "i", "n", "t">>

\* the lookahead (?=\n[A-D]\.|Hint|$) of option_pattern at position p
OptionStop(t, p) ==
    \/ (p + 2 <= Len(t) /\ t[p] = "\n" /\ IsOptionLetter(t[p + 1]) /\ t[p + 2] = ".")
    \/ StartsAt(t, p, HintWord)
    \/ AtDollar(t, p)

\* group 1 of every match of option_pattern, re.finditer scanning from pos
RECURSIVE OptionGroupsFrom(_, _)
OptionGroupsFrom(t, pos) ==
    LET starts == {i \in pos..Len(t) : OptionMarkerEnd(t, i) > 0}
    IN  IF starts = {} THEN <<>>
        ELSE LET from == OptionMarkerEnd(t, Min(starts)) + 1
                 stop == Min({p \in from..(Len(t) + 1) : OptionStop(t, p)})
             IN  <<Slice(t, from, stop - 1)>> \o OptionGroupsFrom(t, stop)

\* mutant: the option text is kept without .strip()
RECURSIVE KeepNonEmptyUnstripped(_)
KeepNonEmptyUnstripped(gs) ==
    IF gs = <<>> THEN <<>>
    ELSE (IF strip(Head(gs)) # <<>> THEN <<Head(gs)>> ELSE <<>>)
         \o KeepNonEmptyUnstripped(Tail(gs))

\* the loop over re.finditer(option_pattern, part): stripped, non-empty groups
RECURSIVE KeepNonEmpty(_)
KeepNonEmpty(gs) ==
    IF gs = <<>> THEN <<>>
    ELSE LET o == strip(Head(gs))
         IN  (IF o # <<>> THEN <<o>> ELSE <<>>) \o KeepNonEmpty(Tail(gs))

ExtractOptions(part) == KeepNonEmpty(OptionGroupsFrom(part, 1))

\* the lookahead (?=\n\d+\s*/\s*\d+|$) of the hint pattern at position p
HintStop(t, p) == SepHeadEnd(t, p) > 0 \/ AtDollar(t, p)

\* re.search(r'Hint.*?\n.*?\n(.*?)(?=\n\d+\s*/\s*\d+|$)', part, re.DOTALL):
\* group 1 stripped, or "" when there is no match
ExtractHint(part) ==
    LET at == Occurrences(part, HintWord)
    IN  IF at = {} THEN <<>>
        ELSE LET h   == Min(at)
                 nl1 == {k \in (h + 4)..Len(part) : part[k] = "\n"}
             IN  IF nl1 = {} THEN <<>>
                 ELSE LET nl2 == {k \in (Min(nl1) + 1)..Len(part) : part[k] = "\n"}
                      IN  IF nl2 = {} THEN <<>>
                          ELSE LET from == Min(nl2) + 1
                                   stop == Min({p \in from..(Len(part) + 1) :
                                                   HintStop(part, p)})
                               IN  strip(Slice(part, from, stop - 1))

EscapedQuote == <<"\\", "'">>

\* s.replace(r"\'", "'"), scanning from pos: one step per occurrence
RECURSIVE UnescapeFrom(_, _)
UnescapeFrom(t, pos) ==
    LET at == {i \in pos..Len(t) : StartsAt(t, i, EscapedQuote)}
    IN  IF at = {} THEN Slice(t, pos, Len(t))
        ELSE Slice(t, pos, Min(at) - 1) \o <<"'">> \o UnescapeFrom(t, Min(at) + 2)

UnescapeQuotes(t) == UnescapeFrom(t, 1)

\* mutant: three options are enough, and three are kept
OptionCountThree == 4 - 1

\* how many options a question keeps (options[:4]) and needs (len(options) >= 4)
OptionCount == 4

\* the body of parse_quiz's loop: the questions one part contributes (none or one)
ParsePart(part) ==
    IF strip(part) = <<>> THEN <<>>
    ELSE LET qm == QuestionMatch(part)
         IN  IF ~qm.found THEN <<>>
             ELSE LET question_text == UnescapeQuotes(NormalizeBlanks(strip(qm.group)))
                      found         == ExtractOptions(part)
                      options       == [i \in 1..Len(found) |-> UnescapeQuotes(found[i])]
                      hint          == UnescapeQuotes(ExtractHint(part))
                  IN  IF question_text # <<>> /\ Len(options) >= OptionCount
                      THEN <<[question |-> question_text,
                              options  |-> SubSeq(options, 1, OptionCount),
                              hint     |-> hint]>>
                      ELSE <<>>

\* mutant: a part that yields no question ends the loop (break for continue)
RECURSIVE ParsePartsStopping(_)
ParsePartsStopping(parts) ==
    IF parts = <<>> \/ ParsePart(Head(parts)) = <<>> THEN <<>>
    ELSE ParsePart(Head(parts)) \o ParsePartsStopping(Tail(parts))

RECURSIVE ParseParts(_)
ParseParts(parts) ==
    IF parts = <<>> THEN <<>>
    ELSE ParsePart(Head(parts)) \o ParseParts(Tail(parts))

parse_quiz(t) == ParseParts(SplitParts(t))

----------------------------------------------------------------------------
(* create_html_quiz *)

\* q.get('correct_answer', 0)
DefaultAnswer == 0

\* mutant: the default of q.get('correct_answer', ...) is the second option
QuizDataEntrySecond(q) ==
    [q       |-> q.question,
     options |-> q.options,
     answer  |-> IF "correct_answer" \in DOMAIN q THEN q.correct_answer ELSE 1,
     hint    |-> q.hint]

\* one element of quiz_data, built from one element of `questions`
QuizDataEntry(q) ==
    [q       |-> q.question,
     options |-> q.options,
     answer  |-> IF "correct_answer" \in DOMAIN q THEN q.correct_answer
                 ELSE DefaultAnswer,
     hint    |-> q.hint]

BuildQuizData(qs) == [i \in 1..Len(qs) |-> QuizDataEntry(qs[i])]

\* json.dumps' escape of one character (ensure_ascii): ESCAPE_DCT, and \uXXXX
\* for the non-ASCII characters of the model
JsonEscapeChar(c) ==
    CASE c = "\"" -> <<"\\", "\"">>
      [] c = "\\" -> <<"\\", "\\">>
      [] c = "\n" -> <<"\\", "n">>
      [] c = "\r" -> <<"\\", "r">>
      [] c = "\t" -> <<"\\", "t">>
      [] c = "U+2713" -> <<"\\", "u", "2", "7", "1", "3">>
      [] c = "U+2714" -> <<"\\", "u", "2", "7", "1", "4">>
      [] OTHER -> <<c>>

JsonNeedsEscape(c) == c \in {"\"", "\\", "\n", "\r", "\t", "U+2713", "U+2714"}

\* the escaped characters of a string, from pos: one step per escaped character
RECURSIVE JsonEscapeFrom(_, _)
JsonEscapeFrom(t, pos) ==
    LET at == {i \in pos..Len(t) : JsonNeedsEscape(t[i])}
    IN  IF at = {} THEN Slice(t, pos, Len(t))
        ELSE Slice(t, pos, Min(at) - 1) \o JsonEscapeChar(t[Min(at)])
             \o JsonEscapeFrom(t, Min(at) + 1)

\* json.dumps of a str
JsonString(t) == <<"\"">> \o JsonEscapeFrom(t, 1) \o <<"\"">>

\* json.dumps of an int in 0..9 (the only ones create_html_quiz writes)
JsonInt(n) == <<CASE n = 0 -> "0" [] n = 1 -> "1" [] n = 2 -> "2" [] n = 3 -> "3"
                  [] n = 4 -> "4" [] n = 5 -> "5" [] n = 6 -> "6" [] n = 7 -> "7"
                  [] n = 8 -> "8" [] n = 9 -> "9">>

\* json.dumps(..., indent=8)
JsonIndent == 8

\* the newline and indentation json.dumps writes at nesting depth `level`
JsonNewline(level) == <<"\n">> \o [i \in 1..(JsonIndent * level) |-> " "]

\* items (already serialized) as the body of a JSON array or object at `level`
RECURSIVE JsonJoin(_, _)
JsonJoin(items, level) ==
    IF Len(items) = 1 THEN Head(items)
    ELSE Head(items) \o <<",">> \o JsonNewline(level) \o JsonJoin(Tail(items), level)

\* json.dumps of a list whose items are already serialized, opened at level - 1
JsonArray(items, level) ==
    IF items = <<>> THEN <<"[", "]">>
    ELSE <<"[">> \o JsonNewline(level) \o JsonJoin(items, level)
         \o JsonNewline(level - 1) \o <<"]">>

JsonKey(k) == <<"\"">> \o k \o <<"\"", ":", " ">>

KeyQ == <<"q">>

KeyOptions == <<"o", "p", "t", "i", "o", "n", "s">>

KeyAnswer == <<"a", "n", "s", "w", "e", "r">>

KeyHint == <<"h", "i", "n", "t">>

\* json.dumps of one element of quiz_data (a dict at level 1, keys in insertion order)
JsonQuestion(e) ==
    <<"{">> \o JsonNewline(2)
    \o JsonJoin(<<JsonKey(KeyQ) \o JsonString(e.q),
                  JsonKey(KeyOptions)
                      \o JsonArray([i \in 1..Len(e.options) |-> JsonString(e.options[i])], 3),
                  JsonKey(KeyAnswer) \o JsonInt(e.answer),
                  JsonKey(KeyHint) \o JsonString(e.hint)>>, 2)
    \o JsonNewline(1) \o <<"}">>

\* json.dumps(quiz_data, indent=8)
JsonDumps(qd) == JsonArray([i \in 1..Len(qd) |-> JsonQuestion(qd[i])], 1)

\* The page template, reduced to the parts that depend on the arguments and the
\* script region that embeds quizData (styling, markup and the client-side
\* functions are constant text).
TitleOpen == <<"<","t","i","t","l","e",">">>

TitleClose == <<"<","/","t","i","t","l","e",">","\n">>

ScriptOpen == <<"<","s","c","r","i","p","t",">","\n">>

QuizDataDecl == <<" "," "," "," ","c","o","n","s","t"," ","q","u","i","z","D","a","t","a"," ","="," ">>

ScriptRest == <<";","\n"," "," "," "," ","l","o","a","d","Q","u","e","s","t","i","o","n","(",")",";","\n">>

ScriptClose == <<"<","/","s","c","r","i","p","t",">","\n">>

\* the html create_html_quiz returns for quiz_data qd
HtmlPage(qd, quiz_title) ==
    TitleOpen \o quiz_title \o TitleClose \o ScriptOpen \o QuizDataDecl
    \o JsonDumps(qd) \o ScriptRest \o ScriptClose

create_html_quiz(qs, quiz_title) == HtmlPage(BuildQuizData(qs), quiz_title)

----------------------------------------------------------------------------
(* The Word document and the external converter (pandoc --to=plain) *)

\* A document is a title paragraph (possibly none) and blocks; a block is its
\* counter line, the prompt, the option texts (labelled A., B., ... in order)
\* and the lines of the hint section.  `gap` is what pandoc writes between two
\* paragraphs.

OptionLetters == <<"A", "B", "C", "D">>

RenderOption(k, opt, gap) == <<OptionLetters[k], ".">> \o gap \o opt \o gap

RenderLines(ls, gap) == Flatten([i \in 1..Len(ls) |-> ls[i] \o gap])

RenderBlock(b, gap) ==
    b.counter \o gap
    \o (IF b.prompt = <<>> THEN <<>> ELSE b.prompt \o gap)
    \o Flatten([k \in 1..Len(b.opts) |-> RenderOption(k, b.opts[k], gap)])
    \o (IF b.hint = <<>> THEN <<>> ELSE HintWord \o gap \o RenderLines(b.hint, gap))

\* the plain text pandoc writes for document d
RenderDocx(d) ==
    (IF d.title = <<>> THEN <<>> ELSE d.title \o d.gap)
    \o Flatten([i \in 1..Len(d.blocks) |-> RenderBlock(d.blocks[i], d.gap)])

----------------------------------------------------------------------------
(* The documents the model converts *)

Counter == <<"3"," ","/"," ","1","0">>

PlainOpts == <<<<"o","x">>, <<"b","e","e">>, <<"c","a","t">>, <<"d","o","g">>>>

PlainHint == <<<<"c","l","u","e">>, <<"i","t"," ","m","o","o","s">>>>

\* the four correct-answer markers of the input convention, applied to text t
Marked(kind, t) ==
    CASE kind = "asterisks" -> <<"*">> \o t \o <<"*">>
      [] kind = "check"     -> <<"U+2713">> \o t
      [] kind = "bracket"   -> t \o <<" ","[","C","o","r","r","e","c","t","]">>
      [] kind = "paren"     -> t \o <<" ","(","C","O","R","R","E","C","T",")">>

MarkerKinds == {"asterisks", "check", "bracket", "paren"}

\* a well-formed block whose option at position pos carries a marker
MarkedBlock(pos, kind) ==
    [counter |-> Counter, prompt |-> <<"W","h","i","c","h","?">>,
     opts    |-> [k \in 1..4 |-> IF k = pos THEN Marked(kind, PlainOpts[k])
                                 ELSE PlainOpts[k]],
     hint    |-> PlainHint]

MarkedBlocks == {MarkedBlock(pos, kind) : pos \in 1..4, kind \in MarkerKinds}

\* a well-formed block without marker
PlainBlock == [counter |-> Counter, prompt |-> <<"W","h","i","c","h","?">>, opts |-> PlainOpts, hint |-> PlainHint]

\* well-formed, no hint section, a blank to fill in and an escaped apostrophe
BlankBlock ==
    [counter |-> <<"1","0","/","1","0">>, prompt |-> <<"I"," ","_","_"," ","a"," ","_"," ","b">>,
     opts    |-> <<<<"i","t","\\","'","s">>, <<"b">>, <<"c">>, <<"d">>>>, hint |-> <<>>]

\* only three labelled options
ShortBlock ==
    [counter |-> Counter, prompt |-> <<"W","h","o","?">>, opts |-> SubSeq(PlainOpts, 1, 3),
     hint |-> PlainHint]

\* no question text before "A."
PromptlessBlock == [counter |-> Counter, prompt |-> <<>>, opts |-> PlainOpts, hint |-> <<>>]

\* the example block: "1 / 4", a blank, option B wrapped in asterisks, a hint
ExampleBlock ==
    [counter |-> <<"1"," ","/"," ","4">>,
     prompt  |-> <<"F","i","l","l"," ","i","n"," ","t","h","e"," ","b","l","a","n","k",":"," ","c","a","t","s"," ","_","_","_","_"," ","d","o","g","s",".">>,
     opts    |-> <<<<"l","i","k","e">>, <<"*","c","h","a","s","e","*">>, <<"r","u","n">>, <<"s","l","e","e","p">>>>,
     hint    |-> <<<<"T","h","i","n","k"," ","a","b","o","u","t"," ","p","r","e","d","a","t","o","r","s">>, <<"T","h","e","y"," ","o","f","t","e","n"," ","c","h","a","s","e",".">>>>]

\* the blocks of the documents with several blocks
PoolBlocks == {PlainBlock, MarkedBlock(3, "check"), BlankBlock, ShortBlock, PromptlessBlock}

\* the blocks of the documents with one block
SingleBlocks == PoolBlocks \cup MarkedBlocks \cup {ExampleBlock}

MaxBlocks == 3

RECURSIVE SeqsUpTo(_, _)
SeqsUpTo(S, n) ==
    IF n = 0 THEN {<<>>}
    ELSE LET shorter == SeqsUpTo(S, n - 1)
         IN  shorter \cup {Append(q, x) : q \in {r \in shorter : Len(r) = n - 1}, x \in S}

BlockSeqs == {<<b>> : b \in SingleBlocks} \cup SeqsUpTo(PoolBlocks, MaxBlocks)

Titles == {<<>>, <<"Q","u","i","z">>}

Gaps == {<<"\n">>, <<"\n", "\n">>}

Docs == [title : Titles, gap : Gaps, blocks : BlockSeqs]

----------------------------------------------------------------------------
(* quiz_converter.py: main *)

\* str.title(): a letter is upper-cased after a non-letter, lower-cased after a letter
TitleCase(t) ==
    [i \in 1..Len(t) |->
        IF ~IsLetter(t[i]) THEN t[i]
        ELSE IF i = 1 \/ ~IsLetter(t[i - 1]) THEN UpperCase[LetterIndex(t[i])]
        ELSE LowerCase[LetterIndex(t[i])]]

\* str.replace('_', ' ')
UnderscoresToSpaces(t) == [i \in 1..Len(t) |-> IF t[i] = "_" THEN " " ELSE t[i]]

\* Path(name).stem for a path without directories
Stem(name) ==
    Bind({i \in 1..Len(name) : name[i] = "."},
         LAMBDA dots :
             IF dots = {} \/ Max(dots) = 1 \/ Max(dots) = Len(name) THEN name
             ELSE SubSeq(name, 1, Max(dots) - 1))

HtmlSuffix == <<".","h","t","m","l">>

\* main's docx_path, quiz_title and output_filename
DocxPath == argv[1]

QuizTitle == IF Len(argv) > 1 THEN argv[2] ELSE TitleCase(UnderscoresToSpaces(Stem(DocxPath)))

OutputFilename == Stem(DocxPath) \o HtmlSuffix

PathArg == <<"m","y","_","q","1",".","d","o","c","x">>

TitleArg == <<"C","o","w","s">>

ArgvChoices == {<<>>, <<PathArg>>, <<PathArg, TitleArg>>}

NoFile == [written |-> FALSE, name |-> <<>>, content |-> <<>>]

\* mutant: every exit reports success
ExitZero(code) == pc' = "done" /\ exitCode' = 0

\* sys.exit(code) anywhere in the command
Exit(code) == pc' = "done" /\ exitCode' = code

\* main, lines 500-504: the usage check
MainArgs ==
    /\ pc = "start"
    /\ IF Len(argv) < 1 THEN Exit(1) ELSE pc' = "check_file" /\ UNCHANGED exitCode
    /\ UNCHANGED <<argv, docExists, docx, pandoc, text, questions, quiz_data, html, artifact>>
    /\ UNCHANGED <<extracted, indexVars, pageVars, runs>>

\* main, lines 509-511: the document must exist
MainCheckFile ==
    /\ pc = "check_file"
    /\ IF ~docExists THEN Exit(1) ELSE pc' = "extract" /\ UNCHANGED exitCode
    /\ UNCHANGED <<argv, docExists, docx, pandoc, text, questions, quiz_data, html, artifact>>
    /\ UNCHANGED <<extracted, indexVars, pageVars, runs>>

\* extract_text_from_docx, called by main: pandoc's stdout, or exit 1 when the
\* executable is missing (FileNotFoundError) or exits non-zero (CalledProcessError)
ExtractTextFromDocx ==
    /\ pc = "extract"
    /\ IF pandoc = "ok"
       THEN text' = RenderDocx(docx) /\ pc' = "parse" /\ UNCHANGED exitCode
       ELSE Exit(1) /\ UNCHANGED text
    /\ UNCHANGED <<argv, docExists, docx, pandoc, questions, quiz_data, html, artifact>>
    /\ UNCHANGED <<extracted, indexVars, pageVars, runs>>

\* main, lines 516-525: parse, and give up when no question was found
MainParse ==
    /\ pc = "parse"
    /\ questions' = parse_quiz(text)
    /\ IF questions' = <<>> THEN Exit(1) ELSE pc' = "render" /\ UNCHANGED exitCode
    /\ UNCHANGED <<argv, docExists, docx, pandoc, text, quiz_data, html, artifact>>
    /\ UNCHANGED <<extracted, indexVars, pageVars, runs>>

\* main, line 541: html = create_html_quiz(questions, quiz_title)
MainCreateHtml ==
    /\ pc = "render"
    /\ quiz_data' = BuildQuizData(questions)
    /\ html' = create_html_quiz(questions, QuizTitle)
    /\ pc' = "write"
    /\ UNCHANGED <<argv, docExists, docx, pandoc, text, questions, artifact, exitCode>>
    /\ UNCHANGED <<extracted, indexVars, pageVars, runs>>

\* main, lines 544-559: write the page; main returns, the process exits with 0
MainWrite ==
    /\ pc = "write"
    /\ artifact' = [written |-> TRUE, name |-> OutputFilename, content |-> html]
    /\ Exit(0)
    /\ UNCHANGED <<argv, docExists, docx, pandoc, text, questions, quiz_data, html>>
    /\ UNCHANGED <<extracted, indexVars, pageVars, runs>>

----------------------------------------------------------------------------
(* json.loads, as update_index.py uses it on the embedded quizData *)

\* A decoded value carries its type: [t |-> "str", v |-> characters],
\* [t |-> "int", v |-> n], [t |-> "arr", v |-> values],
\* [t |-> "obj", v |-> <<[k |-> key, v |-> value], ...>>] in document order.
\* The decoder covers strings, integers, arrays and objects, which is all that
\* json.dumps writes for quiz_data; anything else is a decoding error.

CharAt(s, k) == IF k >= 1 /\ k <= Len(s) THEN s[k] ELSE "EOF"

IsJsonSpace(c) == c \in {" ", "\t", "\n", "\r"}

SkipSpace(s, i) == RunEnd(s, i, IsJsonSpace) + 1

JsonFail == [ok |-> FALSE, val |-> [t |-> "none", v |-> 0], next |-> 0]

JsonOk(val, next) == [ok |-> TRUE, val |-> val, next |-> next]

IsBackslash(c) == c = "\\"

\* the number of backslashes that directly precede position k, after position i
BackslashesBefore(s, i, k) ==
    Bind({m \in (i + 1)..(k - 1) : s[m] # "\\"},
         LAMBDA plain : IF plain = {} THEN k - 1 - i ELSE k - 1 - Max(plain))

\* the quote that ends the string opened at i, looked for from position from:
\* the first one preceded by an even number of backslashes (0 if the string is
\* not terminated)
RECURSIVE StringCloseFrom(_, _, _)
StringCloseFrom(s, i, from) ==
    Bind(Find(s, <<"\"">>, from),
         LAMBDA q : IF q = 0 THEN 0
                    ELSE IF BackslashesBefore(s, i, q) % 2 = 0 THEN q
                    ELSE StringCloseFrom(s, i, q + 1))

StringClose(s, i) == StringCloseFrom(s, i, i + 1)

\* the character an escape sequence at raw[j] = "\\" stands for, and its length
\* (length 0: not a valid escape)
DecodeEscape(raw, j) ==
    Bind(CharAt(raw, j + 1),
         LAMBDA c :
             CASE c = "\"" -> [len |-> 2, ch |-> "\""]
               [] c = "\\" -> [len |-> 2, ch |-> "\\"]
               [] c = "/"  -> [len |-> 2, ch |-> "/"]
               [] c = "n"  -> [len |-> 2, ch |-> "\n"]
               [] c = "r"  -> [len |-> 2, ch |-> "\r"]
               [] c = "t"  -> [len |-> 2, ch |-> "\t"]
               [] c = "b"  -> [len |-> 2, ch |-> "U+0008"]
               [] c = "f"  -> [len |-> 2, ch |-> "U+000C"]
               [] c = "u" /\ StartsAt(raw, j + 2, <<"2", "7", "1", "3">>) -> [len |-> 6, ch |-> "U+2713"]
               [] c = "u" /\ StartsAt(raw, j + 2, <<"2", "7", "1", "4">>) -> [len |-> 6, ch |-> "U+2714"]
               [] OTHER -> [len |-> 0, ch |-> "EOF"])

\* the text of a string body from pos on, one step per escape sequence
RECURSIVE DecodeStringFrom(_, _)
DecodeStringFrom(raw, pos) ==
    Bind(Find(raw, <<"\\">>, pos),
         LAMBDA j :
             IF j = 0 THEN [ok |-> TRUE, v |-> Slice(raw, pos, Len(raw))]
             ELSE Bind(DecodeEscape(raw, j),
                       LAMBDA e :
                           IF e.len = 0 THEN [ok |-> FALSE, v |-> <<>>]
                           ELSE Bind(DecodeStringFrom(raw, j + e.len),
                                     LAMBDA rest :
                                         IF ~rest.ok THEN [ok |-> FALSE, v |-> <<>>]
                                         ELSE [ok |-> TRUE,
                                               v |-> Slice(raw, pos, j - 1) \o <<e.ch>> \o rest.v])))

\* a JSON string at s[i] = "\"" (strict: no raw control character inside)
ParseString(s, i) ==
    Bind(StringClose(s, i),
         LAMBDA k :
             IF k = 0 THEN JsonFail
             ELSE Bind(Slice(s, i + 1, k - 1),
                       LAMBDA raw :
                           IF \E m \in 1..Len(raw) : raw[m] \in {"\n", "\r", "\t"} THEN JsonFail
                           ELSE Bind(DecodeStringFrom(raw, 1),
                                     LAMBDA d : IF ~d.ok THEN JsonFail
                                                ELSE JsonOk([t |-> "str", v |-> d.v], k + 1))))

DigitValue(c) ==
    CASE c = "0" -> 0 [] c = "1" -> 1 [] c = "2" -> 2 [] c = "3" -> 3 [] c = "4" -> 4
      [] c = "5" -> 5 [] c = "6" -> 6 [] c = "7" -> 7 [] c = "8" -> 8 [] c = "9" -> 9

RECURSIVE DigitsValue(_)
DigitsValue(ds) ==
    IF ds = <<>> THEN 0
    ELSE 10 * DigitsValue(SubSeq(ds, 1, Len(ds) - 1)) + DigitValue(ds[Len(ds)])

\* a non-negative JSON integer at s[i]
ParseInt(s, i) ==
    Bind(RunEnd(s, i, IsDigit),
         LAMBDA e :
             IF e < i \/ (e > i /\ s[i] = "0") \/ CharAt(s, e + 1) \in {".", "e", "E"}
             THEN JsonFail
             ELSE JsonOk([t |-> "int", v |-> DigitsValue(Slice(s, i, e))], e + 1))

RECURSIVE ParseValue(_, _)
RECURSIVE ParseElements(_, _, _)
RECURSIVE ParseMembers(_, _, _)

\* the elements of an array from position j on, after the elements in acc
ParseElements(s, j, acc) ==
    Bind(ParseValue(s, j),
         LAMBDA r :
             IF ~r.ok THEN JsonFail
             ELSE Bind(SkipSpace(s, r.next),
                       LAMBDA k :
                           IF CharAt(s, k) = "," THEN
                               ParseElements(s, SkipSpace(s, k + 1), Append(acc, r.val))
                           ELSE IF CharAt(s, k) = "]" THEN
                               JsonOk([t |-> "arr", v |-> Append(acc, r.val)], k + 1)
                           ELSE JsonFail))

\* the members of an object from position j on, after the members in acc
ParseMembers(s, j, acc) ==
    IF CharAt(s, j) # "\"" THEN JsonFail
    ELSE Bind(ParseString(s, j),
              LAMBDA key :
                  IF ~key.ok \/ CharAt(s, SkipSpace(s, key.next)) # ":" THEN JsonFail
                  ELSE Bind(ParseValue(s, SkipSpace(s, SkipSpace(s, key.next) + 1)),
                            LAMBDA r :
                                IF ~r.ok THEN JsonFail
                                ELSE Bind(<<SkipSpace(s, r.next),
                                            Append(acc, [k |-> key.val.v, v |-> r.val])>>,
                                          LAMBDA km :
                                              IF CharAt(s, km[1]) = "," THEN
                                                  ParseMembers(s, SkipSpace(s, km[1] + 1), km[2])
                                              ELSE IF CharAt(s, km[1]) = "}" THEN
                                                  JsonOk([t |-> "obj", v |-> km[2]], km[1] + 1)
                                              ELSE JsonFail)))

\* the JSON value that starts at position i
ParseValue(s, i) ==
    Bind(<<CharAt(s, i), SkipSpace(s, i + 1)>>,
         LAMBDA cq :
             IF cq[1] = "\"" THEN ParseString(s, i)
             ELSE IF cq[1] = "[" THEN
                 (IF CharAt(s, cq[2]) = "]" THEN JsonOk([t |-> "arr", v |-> <<>>], cq[2] + 1)
                  ELSE ParseElements(s, cq[2], <<>>))
             ELSE IF cq[1] = "{" THEN
                 (IF CharAt(s, cq[2]) = "}" THEN JsonOk([t |-> "obj", v |-> <<>>], cq[2] + 1)
                  ELSE ParseMembers(s, cq[2], <<>>))
             ELSE IF IsDigit(cq[1]) THEN ParseInt(s, i)
             ELSE JsonFail)

\* json.loads(s): [ok, val]; ok is FALSE where json.loads raises
json_loads(s) ==
    Bind(s, LAMBDA d :
        Bind(ParseValue(d, SkipSpace(d, 1)),
             LAMBDA r : IF r.ok /\ SkipSpace(d, r.next) = Len(d) + 1
                        THEN [ok |-> TRUE, val |-> r.val]
                        ELSE [ok |-> FALSE, val |-> JsonFail.val]))

----------------------------------------------------------------------------
(* update_index.py *)

IndexName == <<"i","n","d","e","x",".","h","t","m","l">>

UploaderName == <<"u","p","l","o","a","d","e","r",".","h","t","m","l">>

\* the characters of file names in code point order (printable ASCII; no backquote)
Ascii == <<" ","!","\"","#","$","%","&","'","(",")","*","+",",","-",".","/","0","1","2","3","4","5","6","7","8","9",":",";","<","=",">","?","@","A","B","C","D","E","F","G","H","I","J","K","L","M","N","O","P","Q","R","S","T","U","V","W","X","Y","Z","[","\\","]","^","_","a","b","c","d","e","f","g","h","i","j","k","l","m","n","o","p","q","r","s","t","u","v","w","x","y","z","{","|","}","~">>

Ord(c) == CHOOSE k \in 1..Len(Ascii) : Ascii[k] = c

\* a < b for str (lexicographic by code point)
StrLess(a, b) ==
    \E n \in 0..Len(a) :
        /\ n <= Len(b)
        /\ \A k \in 1..n : a[k] = b[k]
        /\ IF n = Len(a) THEN n < Len(b)
           ELSE n < Len(b) /\ Ord(a[n + 1]) < Ord(b[n + 1])

\* sorted(names)
SortedSeq(S) ==
    [j \in 1..Cardinality(S) |->
        CHOOSE x \in S : Cardinality({y \in S : StrLess(y, x)}) = j - 1]

\* file.name matches '*.html'
IsHtmlName(name) == Len(name) >= Len(HtmlSuffix)
                    /\ StartsAt(name, Len(name) - Len(HtmlSuffix) + 1, HtmlSuffix)

\* find_quiz_files() in directory folder (a function from file names to contents)
find_quiz_files(folder) ==
    SortedSeq({n \in DOMAIN folder : IsHtmlName(n) /\ n \notin {IndexName, UploaderName}})

TitleTagOpen == <<"<","t","i","t","l","e",">">>

TitleTagClose == <<"<","/","t","i","t","l","e",">">>

\* re.search(r'<title>(.*?)</title>', content): `.` does not match a newline
TitleMatch(content) ==
    Bind({i \in Occurrences(content, TitleTagOpen) :
             Bind(Find(content, TitleTagClose, i + Len(TitleTagOpen)),
                  LAMBDA e : /\ e # 0
                             /\ \A m \in (i + Len(TitleTagOpen))..(e - 1) : content[m] # "\n")},
         LAMBDA starts :
             IF starts = {} THEN [found |-> FALSE, group |-> <<>>]
             ELSE Bind(Min(starts),
                       LAMBDA i :
                           [found |-> TRUE,
                            group |-> Slice(content, i + Len(TitleTagOpen),
                                            Find(content, TitleTagClose,
                                                 i + Len(TitleTagOpen)) - 1)]))

QuizDataOpen == <<"c","o","n","s","t"," ","q","u","i","z","D","a","t","a"," ","="," ","[">>

QuizDataEnd == <<"]",";">>

\* re.search(r'const quizData = (\[.*?\]);', content, re.DOTALL): group 1 runs
\* from the bracket to the first "]" that a ";" follows
QuizDataMatch(content) ==
    Bind({i \in Occurrences(content, QuizDataOpen) :
             Find(content, QuizDataEnd, i + Len(QuizDataOpen)) # 0},
         LAMBDA starts :
             IF starts = {} THEN [found |-> FALSE, group |-> <<>>]
             ELSE Bind(Min(starts),
                       LAMBDA i :
                           [found |-> TRUE,
                            group |-> Slice(content, i + Len(QuizDataOpen) - 1,
                                            Find(content, QuizDataEnd,
                                                 i + Len(QuizDataOpen)))]))

\* question_count when quizData is missing or does not decode
DefaultQuestionCount == 10

\* extract_quiz_info, lines 36-45
QuestionCount(content) ==
    Bind(QuizDataMatch(content),
         LAMBDA m :
             IF ~m.found THEN DefaultQuestionCount
             ELSE Bind(json_loads(m.group),
                       LAMBDA d : IF d.ok THEN Len(d.val.v) ELSE DefaultQuestionCount))

MinMinutes == 5

\* max(5, (question_count + 1) // 2)
EstimatedTime(n) == IF (n + 1) \div 2 > MinMinutes THEN (n + 1) \div 2 ELSE MinMinutes

Has(title_lower, word) == Contains(title_lower, word)

\* get_icon_for_quiz(title)
get_icon_for_quiz(title) ==
    Bind(ToLower(title), LAMBDA t :
        IF Has(t, <<"g","r","a","p","h">>) \/ Has(t, <<"t","r","e","n","d","s">>) \/ Has(t, <<"d","a","t","a">>) THEN <<"U+1F4CA">>
        ELSE IF Has(t, <<"i","e","l","t","s">>) \/ Has(t, <<"p","r","e","p","a","r","a","t","i","o","n">>) THEN <<"U+1F4DD">>
        ELSE IF Has(t, <<"v","o","c","a","b","u","l","a","r","y">>) \/ Has(t, <<"w","o","r","d">>) THEN <<"U+1F4D6">>
        ELSE IF Has(t, <<"g","r","a","m","m","a","r">>) THEN <<"U+270D","U+FE0F">>
        ELSE IF Has(t, <<"s","w","e","e","t","e","n","e","r">>) \/ Has(t, <<"n","u","t","r","i","t","i","o","n">>) THEN <<"U+1F36C">>
        ELSE IF Has(t, <<"m","a","s","l","d">>) \/ Has(t, <<"l","i","v","e","r">>) THEN <<"U+1F9EC">>
        ELSE IF Has(t, <<"s","c","i","e","n","c","e">>) THEN <<"U+1F52C">>
        ELSE IF Has(t, <<"m","a","t","h">>) THEN <<"U+1F522">>
        ELSE <<"U+1F4DA">>)

\* generate_description(title)
generate_description(title) ==
    Bind(ToLower(title), LAMBDA t :
        IF Has(t, <<"g","r","a","p","h">>) /\ Has(t, <<"t","r","e","n","d","s">>) THEN
            <<"M","a","s","t","e","r"," ","t","h","e"," ","t","e","r","m","i","n","o","l","o","g","y"," ","u","s","e","d"," ","t","o"," ","d","e","s","c","r","i","b","e"," ","d","a","t","a"," ","t","r","e","n","d","s",","," ","p","a","t","t","e","r","n","s",","," ","a","n","d"," ","c","h","a","n","g","e","s"," ","i","n"," ","g","r","a","p","h","s"," ","a","n","d"," ","v","i","s","u","a","l","i","z","a","t","i","o","n","s",".">>
        ELSE IF Has(t, <<"i","e","l","t","s">>) \/ Has(t, <<"p","r","e","p","a","r","a","t","i","o","n">>) THEN
            <<"T","e","s","t"," ","y","o","u","r"," ","k","n","o","w","l","e","d","g","e"," ","o","f"," ","I","E","L","T","S"," ","T","a","s","k"," ","1"," ","s","t","r","u","c","t","u","r","e",","," ","v","o","c","a","b","u","l","a","r","y",","," ","a","n","d"," ","w","r","i","t","i","n","g"," ","t","e","c","h","n","i","q","u","e","s"," ","f","o","r"," ","a","c","a","d","e","m","i","c"," ","r","e","p","o","r","t","s",".">>
        ELSE IF Has(t, <<"v","o","c","a","b","u","l","a","r","y">>) THEN
            <<"E","x","p","a","n","d"," ","y","o","u","r"," ","v","o","c","a","b","u","l","a","r","y"," ","a","n","d"," ","t","e","s","t"," ","y","o","u","r"," ","u","n","d","e","r","s","t","a","n","d","i","n","g"," ","o","f"," ","k","e","y"," ","t","e","r","m","s"," ","a","n","d"," ","e","x","p","r","e","s","s","i","o","n","s",".">>
        ELSE IF Has(t, <<"g","r","a","m","m","a","r">>) THEN
            <<"P","r","a","c","t","i","c","e"," ","e","s","s","e","n","t","i","a","l"," ","g","r","a","m","m","a","r"," ","r","u","l","e","s"," ","a","n","d"," ","i","m","p","r","o","v","e"," ","y","o","u","r"," ","l","a","n","g","u","a","g","e"," ","s","k","i","l","l","s",".">>
        ELSE
            <<"T","e","s","t"," ","y","o","u","r"," ","k","n","o","w","l","e","d","g","e"," ","w","i","t","h"," ","t","h","i","s"," ","i","n","t","e","r","a","c","t","i","v","e"," ","q","u","i","z",".">>)

\* extract_quiz_info(html_file) for a readable file with this content
extract_quiz_info(name, content) ==
    Bind(<<TitleMatch(content), QuestionCount(content)>>,
         LAMBDA tn :
             Bind(IF tn[1].found THEN tn[1].group ELSE Stem(name),
                  LAMBDA title :
                      [filename       |-> name,
                       title          |-> title,
                       description    |-> generate_description(title),
                       question_count |-> tn[2],
                       estimated_time |-> EstimatedTime(tn[2]),
                       icon           |-> get_icon_for_quiz(title)]))

\* str(n) for n >= 0
RECURSIVE IntToStr(_)
IntToStr(n) ==
    IF n < 10 THEN JsonInt(n) ELSE IntToStr(n \div 10) \o JsonInt(n % 10)

\* the constant text of a card, between the fields of the f-string
Card1 == <<" "," "," "," "," "," "," "," ","<","a"," ","h","r","e","f","=","\"">>

Card2 == <<"\""," ","c","l","a","s","s","=","\"","q","u","i","z","-","c","a","r","d","\"",">","\n"," "," "," "," "," "," "," "," "," "," "," "," ","<","d","i","v"," ","c","l","a","s","s","=","\"","q","u","i","z","-","i","c","o","n","\"",">">>

Card3 == <<"<","/","d","i","v",">","\n"," "," "," "," "," "," "," "," "," "," "," "," ","<","h","2"," ","c","l","a","s","s","=","\"","q","u","i","z","-","t","i","t","l","e","\"",">">>

Card4 == <<"<","/","h","2",">","\n"," "," "," "," "," "," "," "," "," "," "," "," ","<","p"," ","c","l","a","s","s","=","\"","q","u","i","z","-","d","e","s","c","r","i","p","t","i","o","n","\"",">","\n"," "," "," "," "," "," "," "," "," "," "," "," "," "," "," "," ">>

Card5 == <<"\n"," "," "," "," "," "," "," "," "," "," "," "," ","<","/","p",">","\n"," "," "," "," "," "," "," "," "," "," "," "," ","<","d","i","v"," ","c","l","a","s","s","=","\"","q","u","i","z","-","m","e","t","a","\"",">","\n"," "," "," "," "," "," "," "," "," "," "," "," "," "," "," "," ","<","s","p","a","n",">","U+23F1","U+FE0F"," ","~">>

Card6 == <<" ","m","i","n","u","t","e","s","<","/","s","p","a","n",">","\n"," "," "," "," "," "," "," "," "," "," "," "," "," "," "," "," ","<","s","p","a","n",">","U+2753"," ">>

Card7 == <<" ","q","u","e","s","t","i","o","n","s","<","/","s","p","a","n",">","\n"," "," "," "," "," "," "," "," "," "," "," "," ","<","/","d","i","v",">","\n"," "," "," "," "," "," "," "," "," "," "," "," ","<","b","u","t","t","o","n"," ","c","l","a","s","s","=","\"","b","t","n","-","s","t","a","r","t","\"",">","S","t","a","r","t"," ","Q","u","i","z"," ","U+2192","<","/","b","u","t","t","o","n",">","\n"," "," "," "," "," "," "," "," ","<","/","a",">","\n">>

\* create_quiz_card_html(quiz_info)
create_quiz_card_html(info) ==
    Card1 \o info.filename \o Card2 \o info.icon \o Card3 \o info.title
    \o Card4 \o info.description \o Card5 \o IntToStr(info.estimated_time)
    \o Card6 \o IntToStr(info.question_count) \o Card7

\* '\n'.join(cards)
RECURSIVE JoinLines(_)
JoinLines(cards) ==
    IF cards = <<>> THEN <<>>
    ELSE IF Len(cards) = 1 THEN Head(cards)
    ELSE Head(cards) \o <<"\n">> \o JoinLines(Tail(cards))

GridOpen == <<"<","d","i","v"," ","c","l","a","s","s","=","\"","q","u","i","z","-","g","r","i","d","\"",">">>

DivOpen == <<"<","d","i","v"," ">>

DivClose == <<"<","/","d","i","v",">">>

GridTail == <<"\n"," "," "," "," ","<","/","d","i","v",">">>

\* content.find('</div>', grid_start), where a grid_start of -1 starts the
\* search at the last character
FirstDivClose(content, grid_start) ==
    IF grid_start = 0 THEN Find(content, DivClose, Len(content))
    ELSE Find(content, DivClose, grid_start)

\* The while loop of update_index_html (lines 146-157): div_count after the
\* tokens in content[from .. p] have been counted
DivCount(content, from, p) ==
    1 + Cardinality({i \in from..p : StartsAt(content, i, DivOpen)})
      - Cardinality({i \in from..p : StartsAt(content, i, DivClose)})

\* grid_end after the loop: the first position at which div_count reaches 0,
\* or the value found before the loop when it never does
GridEnd(content, grid_start) ==
    Bind({p \in (grid_start + Len(GridOpen))..Len(content) :
             /\ StartsAt(content, p, DivClose)
             /\ DivCount(content, grid_start + Len(GridOpen), p) = 0},
         LAMBDA zeros :
             IF zeros = {} THEN FirstDivClose(content, grid_start) ELSE Min(zeros))

\* new_grid_content
NewGrid(cards_html) == GridOpen \o <<"\n">> \o cards_html \o GridTail

\* update_index_html(quiz_cards_html) on directory folder: the directory afterwards
\* and the value returned
update_index_html(folder, cards_html) ==
    IF IndexName \notin DOMAIN folder THEN [dir |-> folder, ok |-> FALSE, msg |-> "index_not_found"]
    ELSE Bind(folder[IndexName],
              LAMBDA content :
                  Bind(Find(content, GridOpen, 1),
                       LAMBDA grid_start :
                           IF grid_start = 0 \/ FirstDivClose(content, grid_start) = 0
                           THEN [dir |-> folder, ok |-> FALSE, msg |-> "no_quiz_grid"]
                           ELSE [dir |-> [folder EXCEPT ![IndexName] =
                                             Slice(content, 1, grid_start - 1)
                                             \o NewGrid(cards_html)
                                             \o Slice(content,
                                                      GridEnd(content, grid_start) + Len(DivClose),
                                                      Len(content))],
                                 ok |-> TRUE, msg |-> "none"]))

----------------------------------------------------------------------------
(* update_index.py: main *)

\* main returns: the interpreter exits with status 0
ReturnFromMain == ipc' = "done" /\ iexit' = 0

\* a scan that goes on to rewrite the listing when it finds no quiz file
IndexScanProceeds ==
    /\ ipc = "scan"
    /\ quiz_files' = find_quiz_files(dir)
    /\ ipc' = "extract"
    /\ UNCHANGED <<dir, dir0, quiz_infos, quiz_cards_html, ilog, iexit, convVars, pageVars, runs>>

\* main, lines 174-179: scan the directory; nothing to do without quiz files
IndexScan ==
    /\ ipc = "scan"
    /\ quiz_files' = find_quiz_files(dir)
    /\ IF quiz_files' = <<>>
       THEN ilog' = Append(ilog, "no_quiz_files") /\ ReturnFromMain
       ELSE ipc' = "extract" /\ UNCHANGED <<ilog, iexit>>
    /\ UNCHANGED <<dir, dir0, quiz_infos, quiz_cards_html, convVars, pageVars, runs>>

\* main, lines 183-191: one info and one card per quiz file
IndexExtract ==
    /\ ipc = "extract"
    /\ quiz_infos' = [i \in 1..Len(quiz_files) |->
                         extract_quiz_info(quiz_files[i], dir[quiz_files[i]])]
    /\ quiz_cards_html' =
           JoinLines([i \in 1..Len(quiz_files) |-> create_quiz_card_html(quiz_infos'[i])])
    /\ ipc' = "update"
    /\ UNCHANGED <<dir, dir0, quiz_files, ilog, iexit, convVars, pageVars, runs>>

\* main, lines 194-201: rewrite index.html, report, return
IndexUpdate ==
    /\ ipc = "update"
    /\ \E r \in {update_index_html(dir, quiz_cards_html)} :
           /\ dir' = r.dir
           /\ ilog' = IF r.ok THEN Append(ilog, "updated")
                      ELSE ilog \o <<r.msg, "failed">>
    /\ ReturnFromMain
    /\ UNCHANGED <<dir0, quiz_files, quiz_infos, quiz_cards_html, convVars, pageVars, runs>>

----------------------------------------------------------------------------
(* Reading quizData back from a page, as extract_quiz_info does (lines 37-40) *)

NotExtracted == [done |-> FALSE, ok |-> FALSE, val |-> JsonFail.val]

\* the quizData array of page `content`: the regex match, decoded by json.loads
ReadQuizData(content) ==
    Bind(QuizDataMatch(content),
         LAMBDA m :
             IF ~m.found THEN [done |-> TRUE, ok |-> FALSE, val |-> JsonFail.val]
             ELSE Bind(json_loads(m.group),
                       LAMBDA d : [done |-> TRUE, ok |-> d.ok, val |-> d.val]))

\* create_html_quiz on any list of questions
RoundTripRender ==
    /\ pc = "render"
    /\ quiz_data' = BuildQuizData(questions)
    /\ html' = create_html_quiz(questions, QuizTitle)
    /\ pc' = "rendered"
    /\ UNCHANGED <<argv, docExists, docx, pandoc, text, questions, artifact, exitCode,
                   extracted, indexVars, pageVars, runs>>

RoundTripExtract ==
    /\ pc = "rendered"
    /\ extracted' = ReadQuizData(html)
    /\ pc' = "extracted"
    /\ UNCHANGED <<argv, docExists, docx, pandoc, text, questions, quiz_data, html,
                   artifact, exitCode, indexVars, pageVars, runs>>

----------------------------------------------------------------------------
(* The inputs of the three specifications *)

PandocOutcomes == {"ok", "missing", "fails"}

EmptyDir == [n \in {} |-> <<>>]

ConvIdle ==
    /\ argv = <<PathArg, TitleArg>>
    /\ docExists = FALSE
    /\ docx = [title |-> <<>>, gap |-> <<"\n">>, blocks |-> <<>>]
    /\ pandoc = "ok"
    /\ pc = "idle"
    /\ text = <<>>
    /\ questions = <<>>
    /\ quiz_data = <<>>
    /\ html = <<>>
    /\ artifact = NoFile
    /\ exitCode = -1
    /\ extracted = NotExtracted

\* no page is open in a browser
PageIdle ==
    /\ quizData = <<>>
    /\ currentIdx = 0
    /\ score = 0
    /\ hintsUsed = <<>>
    /\ wrongAnswers = <<>>
    /\ hintTextHidden = TRUE
    /\ buttonsDisabled = FALSE
    /\ feedback = ""
    /\ nextBtnHidden = TRUE
    /\ quizBoxHidden = FALSE
    /\ resultForm = [scoreDisplay |-> <<>>, inputScore |-> <<>>,
                     inputWrong |-> <<>>, inputHints |-> <<>>]
    /\ answered = <<>>

IndexIdle ==
    /\ runs = 0
    /\ dir = EmptyDir
    /\ dir0 = EmptyDir
    /\ ipc = "idle"
    /\ quiz_files = <<>>
    /\ quiz_infos = <<>>
    /\ quiz_cards_html = <<>>
    /\ ilog = <<>>
    /\ iexit = -1

\* the conversion command on one document
Init ==
    /\ argv \in ArgvChoices
    /\ docExists \in BOOLEAN
    /\ docx \in Docs
    /\ pandoc \in PandocOutcomes
    /\ pc = "start"
    /\ text = <<>>
    /\ questions = <<>>
    /\ quiz_data = <<>>
    /\ html = <<>>
    /\ artifact = NoFile
    /\ exitCode = -1
    /\ extracted = NotExtracted
    /\ IndexIdle
    /\ PageIdle

Next ==
    \/ MainArgs
    \/ MainCheckFile
    \/ ExtractTextFromDocx
    \/ MainParse
    \/ MainCreateHtml
    \/ MainWrite

Spec == Init /\ [][Next]_vars

\* The listing pages: text before the card list, the card list, text after it
ListingHead == <<"<","h","1",">","Q","u","i","z","z","e","s","<","/","h","1",">","\n"," "," "," "," ">>

ListingTails == {<<"\n","<","f","o","o","t","e","r",">","b","y","e","<","/","f","o","o","t","e","r",">","\n">>, <<"\n","<","d","i","v"," ","c","l","a","s","s","=","\"","f","o","o","t","\"",">","f","<","/","d","i","v",">","\n">>}

OldCard == <<"\n","<","a"," ","h","r","e","f","=","\"","o","l","d",".","h","t","m","l","\""," ","c","l","a","s","s","=","\"","q","u","i","z","-","c","a","r","d","\"",">","\n","<","d","i","v"," ","c","l","a","s","s","=","\"","q","u","i","z","-","i","c","o","n","\"",">","i","<","/","d","i","v",">","\n","<","d","i","v"," ","c","l","a","s","s","=","\"","q","u","i","z","-","m","e","t","a","\"",">","m","<","/","d","i","v",">","\n","<","/","a",">","\n">>

CardLists ==
    {GridOpen \o <<"\n">> \o DivClose,
     GridOpen \o OldCard \o GridTail,
     GridOpen \o <<"<","d","i","v",">","o","l","d","<","/","d","i","v",">">> \o DivClose,
     GridOpen \o <<"o","l","d">>,
     <<"<","d","i","v"," ","c","l","a","s","s","=","\"","l","i","s","t","\"",">","<","/","d","i","v",">">>}

Listings == {ListingHead \o c \o t : c \in CardLists, t \in ListingTails}

\* The quiz pages a directory may hold, in the order they are added as the
\* bound grows
QuestionCows ==
    [question |-> <<"C","o","w","s"," ","s","a","y","?">>, options |-> <<<<"m","o","o">>, <<"b","a","a">>, <<"o","i","n","k">>, <<"q","u","a","c","k">>>>, hint |-> <<"f","a","r","m">>]

QuizPages ==
    <<[name |-> <<"c","o","w","s",".","h","t","m","l">>, content |-> HtmlPage(BuildQuizData(<<QuestionCows>>), <<"C","o","w","s">>)],
      [name |-> <<"g","r","a","p","h","s",".","h","t","m","l">>,
       content |-> HtmlPage(BuildQuizData(<<QuestionCows, QuestionCows>>), <<"G","r","a","p","h"," ","T","r","e","n","d","s">>)],
      [name |-> <<"v","o","c","a","b",".","h","t","m","l">>, content |-> <<"<","h","t","m","l",">","\n","<","t","i","t","l","e",">","\n","V","o","c","a","b","u","l","a","r","y","<","/","t","i","t","l","e",">","\n","<","/","h","t","m","l",">","\n">>],
      [name |-> <<"a",".","h","t","m","l">>, content |-> <<"<","t","i","t","l","e",">","M","a","t","h","<","/","t","i","t","l","e",">","\n">>]>>

MaxQuizFiles == 2

AvailablePages ==
    {QuizPages[i] : i \in 1..(IF MaxQuizFiles < Len(QuizPages) THEN MaxQuizFiles
                              ELSE Len(QuizPages))}

OtherFiles == {[name |-> UploaderName, content |-> <<"<","t","i","t","l","e",">","U","p","l","o","a","d","<","/","t","i","t","l","e",">","\n">>]}

\* the directory that holds the files fs and, if listing is not <<>>, index.html
MakeDir(fs, listing) ==
    [n \in {f.name : f \in fs} \cup (IF listing = <<>> THEN {} ELSE {IndexName}) |->
        IF n = IndexName THEN listing ELSE (CHOOSE f \in fs : f.name = n).content]

Dirs == {MakeDir(fs, l) : fs \in SUBSET (AvailablePages \cup OtherFiles),
                          l \in Listings \cup {<<>>}}

\* the index update command on one directory
InitIndex ==
    /\ ConvIdle
    /\ PageIdle
    /\ runs = 1
    /\ dir \in Dirs
    /\ dir0 = dir
    /\ ipc = "scan"
    /\ quiz_files = <<>>
    /\ quiz_infos = <<>>
    /\ quiz_cards_html = <<>>
    /\ ilog = <<>>
    /\ iexit = -1

NextIndex ==
    \/ IndexScan
    \/ IndexExtract
    \/ IndexUpdate

SpecIndex == InitIndex /\ [][NextIndex]_vars

\* The texts of the questions that are rendered and read back
Texts == {<<"a">>, <<"x","]",";","y">>, <<"<","/","s","c","r","i","p","t",">">>, <<"i","t","'","s"," ","\"","s","o","\"","\\","n">>, <<>>}

OptionLists == {PlainOpts, <<<<"<","/","s","c","r","i","p","t",">">>, <<"i","t","'","s"," ","\"","s","o","\"","\\","n">>, <<"x","]",";","y">>, <<"m","o","o">>>>}

QuestionPool == [question : Texts, options : OptionLists, hint : {<<>>, <<"i","t","'","s"," ","\"","s","o","\"","\\","n">>}]

MaxQuestions == 2

QuestionLists == SeqsUpTo(QuestionPool, MaxQuestions)

\* create_html_quiz on any list of questions, and its quizData read back
InitRoundTrip ==
    /\ argv = <<PathArg, TitleArg>>
    /\ docExists = TRUE
    /\ docx = [title |-> <<>>, gap |-> <<"\n">>, blocks |-> <<>>]
    /\ pandoc = "ok"
    /\ pc = "render"
    /\ text = <<>>
    /\ questions \in QuestionLists
    /\ quiz_data = <<>>
    /\ html = <<>>
    /\ artifact = NoFile
    /\ exitCode = -1
    /\ extracted = NotExtracted
    /\ IndexIdle
    /\ PageIdle

NextRoundTrip ==
    \/ RoundTripRender
    \/ RoundTripExtract

SpecRoundTrip == InitRoundTrip /\ [][NextRoundTrip]_vars

----------------------------------------------------------------------------
(* What the claims speak of: fragments, markers, the emitted questions *)

\* The text of block i's fragment that precedes its prompt: the separator
\* pattern starts with a newline, so the counter line of a document's very
\* first line is not split off and stays in the first fragment.
LeadText(d, i) == IF i = 1 /\ d.title = <<>> THEN d.blocks[i].counter ELSE <<>>

\* a fragment with question text before "A." and four labelled options
IsWellFormedFragment(d, i) ==
    /\ LeadText(d, i) \o d.blocks[i].prompt # <<>>
    /\ Len(d.blocks[i].opts) >= 4

WellFormedIndexes(d) == {i \in 1..Len(d.blocks) : IsWellFormedFragment(d, i)}

\* the block behind the j-th well-formed fragment
SourceBlock(d, j) ==
    LET wf == WellFormedIndexes(d)
    IN  d.blocks[CHOOSE i \in wf : Cardinality({k \in wf : k <= i}) = j]

BracketTag == <<"[","c","o","r","r","e","c","t","]">>

ParenTag == <<"(","c","o","r","r","e","c","t",")">>

HasAsterisks(t) == Len(t) >= 2 /\ t[1] = "*" /\ t[Len(t)] = "*"

HasCheckMark(t) == Len(t) >= 1 /\ t[1] \in {"U+2713", "U+2714"}

HasTag(t, tag) == Contains(ToLower(t), tag)

CarriesMarker(t) ==
    HasAsterisks(t) \/ HasCheckMark(t) \/ HasTag(t, BracketTag) \/ HasTag(t, ParenTag)

RemoveTag(t, tag) ==
    LET i == Min(Occurrences(ToLower(t), tag))
    IN  Slice(t, 1, i - 1) \o Slice(t, i + Len(tag), Len(t))

\* the option text without its marker, as the input convention describes it
StripMarker(t) ==
    IF HasAsterisks(t) THEN strip(Slice(t, 2, Len(t) - 1))
    ELSE IF HasCheckMark(t) THEN strip(Tail(t))
    ELSE IF HasTag(t, BracketTag) THEN strip(RemoveTag(t, BracketTag))
    ELSE IF HasTag(t, ParenTag) THEN strip(RemoveTag(t, ParenTag))
    ELSE t

MarkedPositions(b) == {k \in 1..Len(b.opts) : CarriesMarker(b.opts[k])}

\* create_html_quiz has run on the questions parse_quiz returned
Rendered == pc \in {"write", "done"} /\ html # <<>>

\* parse_quiz has run
Parsed ==
    /\ Len(argv) >= 1 /\ docExists /\ pandoc = "ok"
    /\ pc \in {"render", "write", "done"}

----------------------------------------------------------------------------
(* C1 *)

\* C1, as stated: a block in which exactly one option carries a marker is
\* emitted with the marker stripped from that option and with the correct
\* index at that option's position.
C1_MarkerDetected ==
    Rendered =>
        \A j \in 1..Len(quiz_data) :
            LET b == SourceBlock(docx, j)
            IN  Cardinality(MarkedPositions(b)) = 1 =>
                    /\ quiz_data[j].options = [k \in 1..4 |-> StripMarker(b.opts[k])]
                    /\ quiz_data[j].answer + 1 \in MarkedPositions(b)

\* C1, amended: a block in which exactly one option carries a marker is emitted
\* with every option's text as written, the marker included, and with correct
\* index 0, whatever the marker's type and position.
C1_MarkerKept ==
    Rendered =>
        \A j \in 1..Len(quiz_data) :
            LET b == SourceBlock(docx, j)
            IN  Cardinality(MarkedPositions(b)) = 1 =>
                    /\ quiz_data[j].options = [k \in 1..4 |-> b.opts[k]]
                    /\ quiz_data[j].answer = 0

\* a page was rendered from a block whose third option alone carries a marker
C1_Witness ==
    /\ Rendered
    /\ \E j \in 1..Len(quiz_data) :
           /\ MarkedPositions(SourceBlock(docx, j)) = {3}
           /\ CarriesMarker(quiz_data[j].options[3])

----------------------------------------------------------------------------
(* C2 *)

ExampleText == <<"1"," ","/"," ","4","\n","F","i","l","l"," ","i","n"," ","t","h","e"," ","b","l","a","n","k",":"," ","c","a","t","s"," ","_","_","_","_"," ","d","o","g","s",".","\n","A",".","\n","l","i","k","e","\n","B",".","\n","*","c","h","a","s","e","*","\n","C",".","\n","r","u","n","\n","D",".","\n","s","l","e","e","p","\n","H","i","n","t","\n","T","h","i","n","k"," ","a","b","o","u","t"," ","p","r","e","d","a","t","o","r","s","\n","T","h","e","y"," ","o","f","t","e","n"," ","c","h","a","s","e",".","\n">>

ExamplePrompt == <<"F","i","l","l"," ","i","n"," ","t","h","e"," ","b","l","a","n","k",":"," ","c","a","t","s"," ","_","_","_","_"," ","d","o","g","s",".">>

ExamplePromptEmitted == <<"1"," ","/"," ","4","\n","F","i","l","l"," ","i","n"," ","t","h","e"," ","b","l","a","n","k",":"," ","c","a","t","s"," ","_","_","_","_","_","_","_","_","_","_","_"," ","d","o","g","s",".">>

ExampleHint == <<"T","h","e","y"," ","o","f","t","e","n"," ","c","h","a","s","e",".">>

----------------------------------------------------------------------------
(* C3 *)

\* C3: a well-formed block none of whose options carries a marker is emitted
\* with correct index ('answer') 0.
C3_UnmarkedAnswerZero ==
    Rendered =>
        \A j \in 1..Len(quiz_data) :
            MarkedPositions(SourceBlock(docx, j)) = {} => quiz_data[j].answer = 0

\* a page was rendered from a block without marker
C3_Witness ==
    /\ Rendered
    /\ \E j \in 1..Len(quiz_data) :
           /\ MarkedPositions(SourceBlock(docx, j)) = {}
           /\ Len(quiz_data[j].options) = 4

----------------------------------------------------------------------------
(* C4 *)

----------------------------------------------------------------------------
(* C5 *)

\* C5: a run given a document path ends with exit code 1 and no artifact when
\* the document is missing, the converter is missing or fails, or no question
\* is parsed; every other such run writes the artifact and ends with 0.  No
\* artifact exists before the run has ended.
C5_ExitCodes ==
    /\ pc # "done" => exitCode = -1 /\ ~artifact.written
    /\ (pc = "done" /\ Len(argv) >= 1) =>
           IF ~docExists \/ pandoc # "ok" \/ parse_quiz(RenderDocx(docx)) = <<>>
           THEN exitCode = 1 /\ ~artifact.written
           ELSE /\ exitCode = 0
                /\ artifact = [written |-> TRUE, name |-> OutputFilename, content |-> html]
                /\ html = create_html_quiz(parse_quiz(RenderDocx(docx)), QuizTitle)

\* a run whose document held no well-formed fragment ended with exit code 1
C5_Witness ==
    /\ pc = "done" /\ exitCode = 1
    /\ docExists /\ pandoc = "ok" /\ Len(argv) >= 1
    /\ docx.blocks # <<>> /\ text # <<>> /\ questions = <<>>

\* a run that wrote its artifact
C5_WitnessWritten == pc = "done" /\ exitCode = 0 /\ artifact.written

----------------------------------------------------------------------------
(* C6 *)

\* the run of the index command has ended
IndexDone == ipc = "done"

\* the directory the index command started in has no index.html, or one
\* without the opening marker of the card list
ListingUnusable ==
    \/ IndexName \notin DOMAIN dir0
    \/ ~Contains(dir0[IndexName], GridOpen)

\* C6: the index command ends with a non-zero exit status whenever index.html
\* is absent or does not contain the marker '<div class="quiz-grid">'.
C6_NonZeroExit == IndexDone /\ ListingUnusable => iexit # 0

\* a run that found quiz files and reported that index.html was missing
C6_Witness ==
    /\ IndexDone
    /\ IndexName \notin DOMAIN dir0
    /\ quiz_files # <<>>
    /\ ilog = <<"index_not_found", "failed">>

----------------------------------------------------------------------------
(* C7 *)

\* the index command started in a directory without eligible quiz pages whose
\* index.html holds a card
StaleListing ==
    /\ find_quiz_files(dir0) = <<>>
    /\ IndexName \in DOMAIN dir0
    /\ Contains(dir0[IndexName], GridOpen \o OldCard)

\* C7 as the specification states it: with no eligible quiz page and a listing
\* that holds cards, the run leaves index.html with an empty card list and
\* reports no error.
C7_ListEmptied ==
    IndexDone /\ StaleListing =>
        /\ dir = update_index_html(dir0, <<>>).dir
        /\ "failed" \notin {ilog[k] : k \in 1..Len(ilog)}

\* C7: with no eligible quiz page the run stops after the scan: it prints the
\* warning that no quiz files were found, leaves every file (index.html and its
\* cards included) as it was, and ends with exit status 0.
C7_ListingUntouched ==
    IndexDone /\ find_quiz_files(dir0) = <<>> =>
        /\ dir = dir0
        /\ quiz_cards_html = <<>>
        /\ ilog = <<"no_quiz_files">>
        /\ iexit = 0

\* a run without eligible quiz pages that ended with the old card still listed
C7_Witness ==
    /\ IndexDone
    /\ StaleListing
    /\ Contains(dir[IndexName], OldCard)

----------------------------------------------------------------------------
(* C8 *)

\* a container-open token at position i: "<div" followed by a space, a line
\* break or ">"
IsContainerOpen(content, i) ==
    /\ StartsAt(content, i, <<"<","d","i","v">>)
    /\ CharAt(content, i + 4) \in {" ", "\n", "\t", ">"}

\* nesting depth inside the card list after the tokens in content[from .. p]
Depth(content, from, p) ==
    1 + Cardinality({i \in from..p : IsContainerOpen(content, i)})
      - Cardinality({i \in from..p : StartsAt(content, i, DivClose)})

\* the close token that matches the card-list container (0: there is none)
MatchingClose(content) ==
    Bind(Find(content, GridOpen, 1) + Len(GridOpen),
         LAMBDA from :
             Bind({p \in from..Len(content) :
                      StartsAt(content, p, DivClose) /\ Depth(content, from, p) = 0},
                  LAMBDA zeros : IF zeros = {} THEN 0 ELSE Min(zeros)))

\* index.html held the opening marker and a balanced card list, and the run
\* went through update_index_html
BalancedListingUpdated ==
    /\ IndexDone
    /\ quiz_files # <<>>
    /\ IndexName \in DOMAIN dir0
    /\ Contains(dir0[IndexName], GridOpen)
    /\ MatchingClose(dir0[IndexName]) # 0

\* C8: update_index_html replaces exactly the text from the opening marker
\* through the close token that matches it, every nested container counted:
\* the text before the marker and the text after the matching close token are
\* unchanged and nothing of the old card list survives.
C8_RegionReplaced ==
    BalancedListingUpdated =>
        dir[IndexName] =
            Slice(dir0[IndexName], 1, Find(dir0[IndexName], GridOpen, 1) - 1)
            \o NewGrid(quiz_cards_html)
            \o Slice(dir0[IndexName], MatchingClose(dir0[IndexName]) + Len(DivClose),
                     Len(dir0[IndexName]))

\* a balanced card list with a nested '<div>' was updated
C8_Witness ==
    /\ BalancedListingUpdated
    /\ Contains(dir0[IndexName], GridOpen \o <<"<","d","i","v",">">>)
    /\ ilog = <<"updated">>

----------------------------------------------------------------------------
(* C9 *)

JsonStr(t) == [t |-> "str", v |-> t]

\* the value json.loads returns for the quizData of questions qs
Original(qs) ==
    [t |-> "arr",
     v |-> [i \in 1..Len(qs) |->
              [t |-> "obj",
               v |-> <<[k |-> KeyQ, v |-> JsonStr(qs[i].question)],
                       [k |-> KeyOptions,
                        v |-> [t |-> "arr",
                               v |-> [j \in 1..Len(qs[i].options) |->
                                         JsonStr(qs[i].options[j])]]],
                       [k |-> KeyAnswer,
                        v |-> [t |-> "int",
                               v |-> IF "correct_answer" \in DOMAIN qs[i]
                                     THEN qs[i].correct_answer ELSE 0]],
                       [k |-> KeyHint, v |-> JsonStr(qs[i].hint)]>>]]]

\* C9: for any list of questions, texts with "];" included, the quizData read
\* back from the page that create_html_quiz renders (the regex match decoded by
\* json.loads) is the original prompts, options, correct indices and hints, in
\* the same order and number.
C9_RoundTrip ==
    pc = "extracted" => extracted.ok /\ extracted.val = Original(questions)

\* quizData was read back from a page whose question holds "];"
C9_Witness ==
    /\ pc = "extracted"
    /\ extracted.done
    /\ \E i \in 1..Len(questions) : Contains(questions[i].question, QuizDataEnd)

----------------------------------------------------------------------------
(* C10 *)

ScriptEndTag == <<"<","/","s","c","r","i","p","t",">">>

\* C10: whatever the texts of the questions, "</script>" included, the quizData
\* literal of the rendered page holds no "</script>": the first one after
\* "<script>" is the closing tag of the template, at the end of the page.
C10_ScriptRegionSafe ==
    pc \in {"rendered", "extracted"} =>
        /\ ~Contains(JsonDumps(quiz_data), ScriptEndTag)
        /\ Find(html, ScriptEndTag, Find(html, ScriptOpen, 1))
               = Len(html) - Len(ScriptClose) + 1

\* a page was rendered from a question whose prompt is "</script>"
C10_Witness ==
    /\ pc = "rendered"
    /\ \E i \in 1..Len(questions) : questions[i].question = ScriptEndTag

----------------------------------------------------------------------------
(* The conversion of documents whose blocks strain the patterns of parse_quiz *)

\* question texts: none, plain, an escaped apostrophe only, and one whose line
\* ends in a capital letter A-D and a period
ParsePrompts ==
    {<<>>, <<"W","h","i","c","h","?">>, <<"\\","'">>, <<"P","l","a","n"," ","B",".">>}

\* option texts: plain, blank, "Hint" inside a line, a line ending in "C."
ParseOptionTexts ==
    {<<"o","x">>, <<" ">>, <<"a"," ","H","i","n","t"," ","b">>,
     <<"V","i","t","a","m","i","n"," ","C",".">>}

\* hint sections: none, two plain lines, and one whose first line ends in "B."
ParseHints ==
    {<<>>, PlainHint, <<<<"s","e","e"," ","p","l","a","n"," ","B",".">>, <<"i","t"," ","m","o","o","s">>>>}

ParseBlocks ==
    [counter : {Counter}, prompt : ParsePrompts,
     opts : [1..4 -> ParseOptionTexts], hint : ParseHints]

ParseDocs == [title : Titles, gap : {<<"\n">>}, blocks : {<<b>> : b \in ParseBlocks}]

InitParse ==
    /\ argv = <<PathArg>>
    /\ docExists = TRUE
    /\ docx \in ParseDocs
    /\ pandoc = "ok"
    /\ pc = "start"
    /\ text = <<>>
    /\ questions = <<>>
    /\ quiz_data = <<>>
    /\ html = <<>>
    /\ artifact = NoFile
    /\ exitCode = -1
    /\ extracted = NotExtracted
    /\ IndexIdle
    /\ PageIdle

SpecParse == InitParse /\ [][Next]_vars

----------------------------------------------------------------------------
(* C11 *)

\* C11: every question parse_quiz returns, and every entry create_html_quiz
\* serializes for it, has a non-empty prompt, exactly 4 options, each a
\* non-empty string, and a correct index in 0..3.
C11_QuestionShape ==
    /\ \A i \in 1..Len(questions) :
           /\ questions[i].question # <<>>
           /\ Len(questions[i].options) = 4
           /\ \A k \in 1..4 : questions[i].options[k] # <<>>
    /\ \A i \in 1..Len(quiz_data) :
           /\ quiz_data[i].q = questions[i].question /\ quiz_data[i].q # <<>>
           /\ quiz_data[i].options = questions[i].options
           /\ Len(quiz_data[i].options) = 4
           /\ quiz_data[i].answer \in 0..3
           /\ quiz_data[i].answer + 1 \in DOMAIN quiz_data[i].options

\* five option texts were recovered (one of them from the hint section) and a
\* question was serialized from the first four
C11_Witness ==
    /\ pc \in {"write", "done"}
    /\ Len(quiz_data) = 1
    /\ Len(ExtractOptions(text)) = 5

\* a block with a blank option was parsed and gave no question
C11_WitnessSkipped ==
    /\ pc = "done" /\ exitCode = 1
    /\ text # <<>> /\ questions = <<>>
    /\ \E k \in 1..4 : docx.blocks[1].opts[k] = <<" ">>

----------------------------------------------------------------------------
(* C12 *)

\* the block of the document follows the convention: question text, then four
\* marker lines, each followed by option text
ConventionalBlock ==
    /\ strip(docx.blocks[1].prompt) # <<>>
    /\ \A k \in 1..4 : strip(docx.blocks[1].opts[k]) # <<>>

\* parse_quiz has run on the text of the document
TextParsed == pc \in {"render", "write"} \/ (pc = "done" /\ text # <<>>)

\* the text the document carries between the k-th marker line and the next
\* marker line, trimmed (and with the extractor's \' undone)
OptionWritten(k) == UnescapeQuotes(strip(docx.blocks[1].opts[k]))

\* some line of the block other than a marker line ends in a capital A-D and
\* a period
LetterPeriodLine(t) ==
    /\ Len(t) > 2
    /\ t[Len(t)] = "." /\ t[Len(t) - 1] \in {"A", "B", "C", "D"}

\* C12: for a block that follows the convention, the i-th option parse_quiz
\* emits is the trimmed, complete text between the i-th letter's marker line
\* and the next marker, also when an option holds "Hint" mid-line and when the
\* prompt or an option has a line ending in a capital A-D and a period.
C12_OptionsComplete ==
    (TextParsed /\ ConventionalBlock) =>
        /\ Len(questions) = 1
        /\ \A k \in 1..4 : questions[1].options[k] = OptionWritten(k)

\* the same statement for the blocks in which no option holds "Hint" and the
\* prompt does not end in a letter and a period
C12_OptionsCompletePlain ==
    (/\ TextParsed /\ ConventionalBlock
     /\ \A k \in 1..4 : ~Contains(docx.blocks[1].opts[k], HintWord)
     /\ ~LetterPeriodLine(docx.blocks[1].prompt)) =>
        /\ Len(questions) = 1
        /\ \A k \in 1..4 : questions[1].options[k] = OptionWritten(k)

\* a conventional block whose first option holds "Hint" mid-line was parsed
\* and its first option came out cut before the word
C12_Witness ==
    /\ TextParsed /\ ConventionalBlock
    /\ docx.blocks[1].opts[1] = <<"a"," ","H","i","n","t"," ","b">>
    /\ Len(questions) = 1
    /\ questions[1].options[1] = <<"a">>

\* a conventional block whose prompt ends in "B." was parsed and its first
\* option came out with the marker line "A." in it
C12_WitnessPrompt ==
    /\ TextParsed /\ ConventionalBlock
    /\ LetterPeriodLine(docx.blocks[1].prompt)
    /\ \A k \in 1..4 : ~Contains(docx.blocks[1].opts[k], HintWord)
    /\ Len(questions) = 1
    /\ questions[1].options[1] = <<"A", ".", "\n">> \o OptionWritten(1)

----------------------------------------------------------------------------
(* The script of the page create_html_quiz writes (lines 378-492).  The    *)
(* state is the script's variables and the part of the document the        *)
(* handlers read or that decides which handler the user can reach.  The    *)
(* completion time, read from the clock, is left out of the result form.   *)

\* mutant: loadQuestion leaves the Next button visible
NextBtnShownOnLoad == FALSE

\* line 419 (and the class in line 347): nextBtn.classList.add("hidden")
NextBtnHiddenOnLoad == TRUE

\* hintsUsed.includes(qNum)
includes(arr, x) == \E i \in 1..Len(arr) : arr[i] = x

\* Math.round((score / quizData.length) * 100)
Percentage(sc, n) == (200 * sc + n) \div (2 * n)

\* arr.length > 0 ? arr.join(", ") : "None"
JoinOrNone(arr) == IF Len(arr) > 0 THEN arr ELSE <<"None">>

\* the result box before showResults fills it
EmptyForm == [scoreDisplay |-> <<>>, inputScore |-> <<>>, inputWrong |-> <<>>,
              inputHints |-> <<>>]

\* loadQuestion(), for the value currentIdx has when it is called: the hint
\* is hidden, the options are new enabled buttons, the feedback is cleared and
\* the Next button hidden
loadQuestion ==
    /\ currentIdx' + 1 \in DOMAIN quizData
    /\ hintTextHidden' = TRUE
    /\ buttonsDisabled' = FALSE
    /\ feedback' = ""
    /\ nextBtnHidden' = NextBtnHiddenOnLoad

\* showResults(): the quiz box is hidden, the result box shown and filled
showResults ==
    /\ quizBoxHidden' = TRUE
    /\ resultForm' = [scoreDisplay |-> <<score, Len(quizData)>>,
                      inputScore   |-> <<score, Len(quizData),
                                         Percentage(score, Len(quizData))>>,
                      inputWrong   |-> JoinOrNone(wrongAnswers),
                      inputHints   |-> JoinOrNone(hintsUsed)]

\* the user clicks the hint button (shown while the quiz box is): toggleHint()
toggleHint ==
    /\ quizData # <<>> /\ ~quizBoxHidden
    /\ IF hintTextHidden
       THEN /\ hintTextHidden' = FALSE
            /\ hintsUsed' = IF includes(hintsUsed, currentIdx + 1) THEN hintsUsed
                            ELSE Append(hintsUsed, currentIdx + 1)
       ELSE /\ hintTextHidden' = TRUE
            /\ UNCHANGED hintsUsed
    /\ UNCHANGED <<quizData, currentIdx, score, wrongAnswers, buttonsDisabled,
                   feedback, nextBtnHidden, quizBoxHidden, resultForm, answered>>
    /\ UNCHANGED <<convVars, indexVars, runs>>

\* the user clicks an option button that is not disabled:
\* checkAnswer(selectedIndex, btn)
checkAnswer ==
    /\ quizData # <<>> /\ ~quizBoxHidden /\ ~buttonsDisabled
    /\ \E selectedIndex \in 0..(Len(quizData[currentIdx + 1].options) - 1) :
           IF selectedIndex = quizData[currentIdx + 1].answer
           THEN /\ score' = score + 1
                /\ feedback' = "feedback-correct"
                /\ UNCHANGED wrongAnswers
           ELSE /\ wrongAnswers' = Append(wrongAnswers, currentIdx + 1)
                /\ feedback' = "feedback-wrong"
                /\ UNCHANGED score
    /\ buttonsDisabled' = TRUE
    /\ nextBtnHidden' = FALSE
    /\ answered' = Append(answered, currentIdx + 1)
    /\ UNCHANGED <<quizData, currentIdx, hintsUsed, hintTextHidden, quizBoxHidden,
                   resultForm>>
    /\ UNCHANGED <<convVars, indexVars, runs>>

\* the user clicks the Next button while it is visible: nextQuestion()
nextQuestion ==
    /\ quizData # <<>> /\ ~quizBoxHidden /\ ~nextBtnHidden
    /\ currentIdx' = currentIdx + 1
    /\ IF currentIdx' < Len(quizData)
       THEN loadQuestion /\ UNCHANGED <<quizBoxHidden, resultForm>>
       ELSE showResults
            /\ UNCHANGED <<hintTextHidden, buttonsDisabled, feedback, nextBtnHidden>>
    /\ UNCHANGED <<quizData, score, hintsUsed, wrongAnswers, answered>>
    /\ UNCHANGED <<convVars, indexVars, runs>>

\* The quizzes a page is opened with: main writes a page only for a non-empty
\* list of questions, and their answers come from QuizDataEntry
PageQuestions == [question : {<<"W","h","i","c","h","?">>}, options : {PlainOpts},
                  hint : {<<>>, <<"c","l","u","e">>}]

MaxPageQuestions == 3

PageData == {BuildQuizData(qs) : qs \in SeqsUpTo(PageQuestions, MaxPageQuestions) \ {<<>>}}

\* the page after its script has run: the declarations of lines 379-385 and
\* the call of loadQuestion() in line 491.  (Reloading the page, which the
\* Restart button does, starts the script again from here.)
InitPage ==
    /\ ConvIdle
    /\ IndexIdle
    /\ quizData \in PageData
    /\ currentIdx = 0
    /\ score = 0
    /\ hintsUsed = <<>>
    /\ wrongAnswers = <<>>
    /\ hintTextHidden = TRUE
    /\ buttonsDisabled = FALSE
    /\ feedback = ""
    /\ nextBtnHidden = NextBtnHiddenOnLoad
    /\ quizBoxHidden = FALSE
    /\ resultForm = EmptyForm
    /\ answered = <<>>

NextPage ==
    \/ toggleHint
    \/ checkAnswer
    \/ nextQuestion

SpecPage == InitPage /\ [][NextPage]_vars

----------------------------------------------------------------------------
(* C13 *)

\* arr holds no value twice
NoRepeat(arr) == \A i, j \in 1..Len(arr) : arr[i] = arr[j] => i = j

\* how often checkAnswer was called on question number n
TimesAnswered(n) == Cardinality({i \in 1..Len(answered) : answered[i] = n})

\* what holds in every state of the page
PageInvariant ==
    /\ \A n \in 1..currentIdx : TimesAnswered(n) = 1
    /\ \A n \in 1..Len(quizData) : TimesAnswered(n) <= 1
    /\ NoRepeat(hintsUsed)
    /\ NoRepeat(wrongAnswers)
    /\ score + Len(wrongAnswers) = Len(answered)
    /\ quizBoxHidden =>
           /\ score + Len(wrongAnswers) = Len(quizData)
           /\ 0 <= score /\ score <= Len(quizData)
           /\ resultForm.scoreDisplay = <<score, Len(quizData)>>

\* C13: under any sequence of clicks on an enabled option button, the hint
\* button and the visible Next button, each question is answered exactly once
\* before the quiz advances, currentIdx never decreases, hintsUsed and
\* wrongAnswers never hold a question number twice, score + wrongAnswers.length
\* is the number of questions answered so far, and when the results are shown
\* this sum is quizData.length and 0 <= score <= quizData.length.
C13_PageLogic == []PageInvariant /\ [][currentIdx' >= currentIdx]_vars

\* the results of a quiz of several questions are shown after right answers,
\* wrong answers, and hints on some of the questions
C13_Witness ==
    /\ quizBoxHidden
    /\ Len(quizData) = MaxPageQuestions
    /\ score > 0 /\ wrongAnswers # <<>>
    /\ hintsUsed # <<>> /\ Len(hintsUsed) < Len(quizData)

----------------------------------------------------------------------------
(* The index update command run again on the directory it has left *)

MaxRuns == 2

\* update_index.py is started once more: main's locals are new, the directory
\* is what the run before left
IndexRerun ==
    /\ ipc = "done"
    /\ runs < MaxRuns
    /\ runs' = runs + 1
    /\ dir0' = dir
    /\ ipc' = "scan"
    /\ quiz_files' = <<>>
    /\ quiz_infos' = <<>>
    /\ quiz_cards_html' = <<>>
    /\ ilog' = <<>>
    /\ iexit' = -1
    /\ UNCHANGED <<dir, convVars, pageVars>>

\* quiz pages with a file name or a title that holds a container tag
TaggedPages ==
    {[name |-> <<"a","<","d","i","v"," ","b",".","h","t","m","l">>, content |-> <<"<","t","i","t","l","e",">","C","o","w","s","<","/","t","i","t","l","e",">","\n">>],
     [name |-> <<"t","a","g",".","h","t","m","l">>, content |-> <<"<","t","i","t","l","e",">","a","<","/","d","i","v",">","b","<","/","t","i","t","l","e",">","\n">>]}

ReindexDirs == {MakeDir(fs, l) : fs \in SUBSET (AvailablePages \cup TaggedPages),
                                 l \in Listings}

InitReindex ==
    /\ ConvIdle
    /\ PageIdle
    /\ runs = 1
    /\ dir \in ReindexDirs
    /\ dir0 = dir
    /\ ipc = "scan"
    /\ quiz_files = <<>>
    /\ quiz_infos = <<>>
    /\ quiz_cards_html = <<>>
    /\ ilog = <<>>
    /\ iexit = -1

NextReindex ==
    \/ IndexScan
    \/ IndexExtract
    \/ IndexUpdate
    \/ IndexRerun

SpecReindex == InitReindex /\ [][NextReindex]_vars

----------------------------------------------------------------------------
(* C14 *)

\* t holds an opening or a closing container tag
HasContainerTag(t) == Contains(t, <<"<","d","i","v">>) \/ Contains(t, DivClose)

\* a run after the first has ended; it started on a listing with the opening
\* marker and found quiz pages, none with a container tag in its title
SecondRunDone ==
    /\ runs >= 2
    /\ ipc = "done"
    /\ IndexName \in DOMAIN dir0
    /\ Contains(dir0[IndexName], GridOpen)
    /\ quiz_files # <<>>
    /\ \A i \in 1..Len(quiz_infos) : ~HasContainerTag(quiz_infos[i].title)

\* C14: the index update is idempotent: for a listing with the opening marker
\* and a fixed, non-empty set of quiz pages whose titles hold no container tag,
\* a second run leaves the listing as the first run left it.
C14_Idempotent == SecondRunDone => dir = dir0

\* the same statement for the quiz pages whose file names hold no container
\* tag either
C14_IdempotentPlainNames ==
    (SecondRunDone /\ \A i \in 1..Len(quiz_files) : ~HasContainerTag(quiz_files[i]))
        => dir = dir0

\* a second run on a directory with a quiz page named "a<div b.html" has
\* ended and the listing is longer than the first run left it
C14_Witness ==
    /\ SecondRunDone
    /\ \E i \in 1..Len(quiz_files) : HasContainerTag(quiz_files[i])
    /\ Len(dir[IndexName]) > Len(dir0[IndexName])

\* a second run on quiz pages with plain names and titles has replaced the
\* generated card list by the same text
C14_WitnessPlain ==
    /\ SecondRunDone
    /\ \A i \in 1..Len(quiz_files) : ~HasContainerTag(quiz_files[i])
    /\ ilog = <<"updated">>
    /\ Contains(dir[IndexName], NewGrid(quiz_cards_html))
    /\ dir = dir0

====
